---- MODULE Spec2Model ----
(***************************************************************************)
(* MCP Google Tasks: the tool dispatcher of the stdio server               *)
(* (GoogleTasksMCPServer) and of the HTTP/SSE server                       *)
(* (GoogleTasksHTTPServer), the lazily built GoogleTasksClient handle and  *)
(* the credential provider GoogleAuthManager.getAuthClient.                *)
(*                                                                         *)
(* A CallTool handler is an async function: it runs without interruption   *)
(* up to an await (fs.readFile in loadToken, oauth2Client.getAccessToken,  *)
(* the tasks API request) and other handlers of the same process run in    *)
(* between.  Each action below is one such uninterrupted piece.            *)
(*                                                                         *)
(* Further parts: the terminal formatters formatForTerminal and            *)
(* formatJsonForTerminal (the latter also on a heap, where containers have *)
(* identity), the Express front of the HTTP server (cors, rate limiter,    *)
(* body parser, bearer-token middleware, routes), GoogleTasksClient        *)
(* .updateTask, and GoogleAuthManager.saveToken with its file operations.  *)
(***************************************************************************)
EXTENDS Integers, Sequences, FiniteSets, TLC

\* ------------------------------------------------------------------ bounds

\* Number of tool invocations a server process receives in a run.
MaxInv == 2

\* Number of codepoints of the longest string given to formatForTerminal.
MaxLen == 4

\* Number of items of the longest array given to formatJsonForTerminal.
MaxItems == 2

\* ------------------------------------------------------- static tool data

Transports == {"stdio", "http"}

\* TOOL_DEFINITIONS: name and inputSchema.required of each descriptor, in order.
TOOL_DEFINITIONS ==
  << [name |-> "list_task_lists",  required |-> {}],
     [name |-> "create_task_list", required |-> {"title"}],
     [name |-> "list_tasks",       required |-> {"taskListId"}],
     [name |-> "create_task",      required |-> {"taskListId", "title"}],
     [name |-> "update_task",      required |-> {"taskListId", "taskId"}],
     [name |-> "delete_task",      required |-> {"taskListId", "taskId"}],
     [name |-> "get_auth_url",     required |-> {}] >>

READ_ONLY_TOOLS == {"list_task_lists", "list_tasks", "get_auth_url"}

\* A mutating set that also names a read-only tool.
MUTATING_TOOLS_Overlapping ==
  {"create_task_list", "create_task", "update_task", "delete_task", "list_tasks"}

MUTATING_TOOLS == {"create_task_list", "create_task", "update_task", "delete_task"}

ToolNames == {TOOL_DEFINITIONS[k].name : k \in 1..Len(TOOL_DEFINITIONS)}

Descriptor(name) ==
  CHOOSE d \in {TOOL_DEFINITIONS[k] : k \in 1..Len(TOOL_DEFINITIONS)} : d.name = name

\* Names a request may carry: every catalog name and one that is in no catalog.
UnknownName == "no_such_tool"

RequestNames == ToolNames \cup {UnknownName}

\* An argument bag is modelled by the set of its fields that are present.
\* AllFields carries every field some tool requires; ArgChoices adds bags
\* that leave required fields out.
AllFields == {"taskListId", "taskId", "title"}

ArgChoices == {{}, {"taskListId"}, AllFields}

\* ---------------------------------------------------------------- errors

NoError == [isMcp |-> FALSE, code |-> "none", message |-> <<>>]

McpError(code, message) == [isMcp |-> TRUE, code |-> code, message |-> message]

PlainError(message) == [isMcp |-> FALSE, code |-> "Error", message |-> message]

ReadOnlyMessage(name) ==
  <<"Tool '", name,
    "' is not available in read-only mode. Set READ_ONLY=false to enable write operations.">>

UnknownToolMessage(name) == <<"Unknown tool: ", name>>

NoTokenMessage ==
  <<"No valid token found. Please authenticate first using getAuthUrl() and authenticate().">>

\* Messages the tasks API may reject a request with.
ApiErrors == {<<"Rate Limit Exceeded">>}

\* A catch block that wraps whatever it catches.
CatchBlock_WrapsAll(error) ==
  McpError("InternalError", <<"Error executing tool: ">> \o error.message)

\* The catch block of the CallTool handler: an McpError is rethrown as it is,
\* anything else is wrapped in an InternalError that quotes its message.
CatchBlock(error) ==
  IF error.isMcp
    THEN error
    ELSE McpError("InternalError", <<"Error executing tool: ">> \o error.message)

\* A getAuthClient that throws an error with a kind of its own.
getAuthClientError_Classified == McpError("AuthRequired", NoTokenMessage)

\* What getAuthClient throws when loadToken or getAccessToken fails.
getAuthClientError == PlainError(NoTokenMessage)

\* ----------------------------------------------------- JavaScript values

\* The values the formatters of utils.ts are given and return, by type.  A
\* string is the sequence of its UTF-16 code units; an object is the sequence
\* of its entries in insertion order, as Object.entries yields them.
Null == [type |-> "null"]

Undefined == [type |-> "undefined"]

Str(units) == [type |-> "string", units |-> units]

Num(n) == [type |-> "number", n |-> n]

Arr(items) == [type |-> "array", items |-> items]

Obj(entries) == [type |-> "object", entries |-> entries]

\* The place of a return value while the function has not been called.
NotCalled == [type |-> "notCalled"]

\* ----------------------------------------------------------------- state

VARIABLES
  server,       \* the server process of this run: "stdio", "http", or "both"
                \* when the two processes are run side by side
  processEnv,   \* process.env.READ_ONLY of the HTTP server process
  READ_ONLY,    \* http-server.ts READ_ONLY, read once at process start
  tokenFile,    \* whether TOKEN_PATH holds a token: "absent" or "present"
  tasksClient,  \* per server, the cached GoogleTasksClient (0 = null)
  constructed,  \* per server, how many GoogleTasksClient were constructed
  listed,       \* per server, the tools of the last ListTools response
  inv,          \* the invocations, by arrival number
  segmenter,    \* whether the runtime has Intl.Segmenter
  textIn,       \* the argument of a formatForTerminal call
  shown,        \* what that call returned
  reshown,      \* what formatForTerminal returned for the returned string
  data,         \* the argument of a formatJsonForTerminal call
  rtlFields,    \* its rtlFields argument
  json,         \* what that call returned
  heap,         \* the arrays and objects of the runtime, by address
  dataRef,      \* the argument of a formatJsonForTerminal call, as held in the heap
  jsonRef,      \* what that call returned, as held in the heap
  hits,         \* the requests the rate limiter counted in the current window
  sse,          \* the event-stream connections that are open
  lastRequest,  \* the last HTTP request and what became of it
  accepted,     \* the open streams a message was posted for and answered 200
  sent,         \* the open streams the result of such a message was written to
  updateArgs,   \* the arguments of a GoogleTasksClient.updateTask call
  patchCalls,   \* the tasksApi.tasks.patch calls it made
  updated,      \* what updateTask returned
  dir,          \* the token directory: the file each path names (0 = none)
  files,        \* the files, by number: content and mode
  saves         \* the saveToken calls of one GoogleAuthManager

\* The variables of the servers and those of the terminal formatters.
serverVars == <<server, processEnv, READ_ONLY, tokenFile, tasksClient, constructed, listed, inv>>

formatVars == <<segmenter, textIn, shown, reshown, data, rtlFields, json>>

heapVars == <<heap, dataRef, jsonRef>>

httpVars == <<hits, sse, lastRequest, accepted, sent>>

clientVars == <<updateArgs, patchCalls, updated>>

authVars == <<dir, files, saves>>

otherVars == <<heapVars, httpVars, clientVars, authVars>>

vars == <<serverVars, formatVars, otherVars>>

NotListed == <<[name |-> "none", required |-> {}]>>

\* An invocation: the request, how far its handler has run, what it called
\* (initializeClient, getAuthClient, the tasks API), what the collaborators
\* answered, what was thrown inside the try block and what the caller got.
Idle ==
  [pc |-> "idle", transport |-> "none", name |-> "none", args |-> {},
   initCalls |-> 0, authCalls |-> 0, authAnswer |-> "none", client |-> 0,
   api |-> [method |-> "none", passed |-> {}], apiCalls |-> 0, apiAnswer |-> <<>>,
   thrown |-> NoError,
   result |-> [ok |-> FALSE, code |-> "none", message |-> <<>>]]

\* The strings 'false', 'true' and 'FALSE', in UTF-16 code units.
EnvFalse == Str(<<102, 97, 108, 115, 101>>)

EnvTrue == Str(<<116, 114, 117, 101>>)

EnvFALSE == Str(<<70, 65, 76, 83, 69>>)

\* A policy that is read-only only when the setting says 'true'.
ReadOnlyMode_OptIn(value) == value = EnvTrue

\* process.env.READ_ONLY !== 'false'
ReadOnlyMode(value) == value # EnvFalse

\* No formatJsonForTerminal call on heap values, no HTTP request, no
\* updateTask call and no saveToken call has been made.
NoHeapCall == heap = <<>> /\ dataRef = Undefined /\ jsonRef = NotCalled

\* An HTTP request: method, path, the class of its Origin header ("none",
\* "allowed" by the CORS options, or "foreign"), its Authorization header, its
\* body ("none", "json" or "malformed") and the session its message names.
Req(method, path, origin, authorization, body, session) ==
  [method |-> method, path |-> path, origin |-> origin,
   authorization |-> authorization, body |-> body, session |-> session]

NoRequest ==
  [request |-> Req("none", "none", "none", Undefined, "none", 0),
   status |-> 0, handler |-> "none"]

NoHttpRequest == hits = 0 /\ sse = {} /\ lastRequest = NoRequest /\ accepted = {} /\ sent = {}

NoUpdateTask == updateArgs = NotCalled /\ patchCalls = <<>> /\ updated = NotCalled

NoSaveToken == dir = [tmp |-> 0, token |-> 0] /\ files = <<>> /\ saves = <<>>

NoOtherCall == NoHeapCall /\ NoHttpRequest /\ NoUpdateTask /\ NoSaveToken

\* A process just started: READ_ONLY is computed from the environment, which
\* leaves the setting unset or says 'false'.
InitState ==
  /\ processEnv \in {Undefined, EnvFalse}
  /\ READ_ONLY = ReadOnlyMode(processEnv)
  /\ tokenFile \in {"absent", "present"}
  /\ tasksClient = [t \in Transports |-> 0]
  /\ constructed = [t \in Transports |-> 0]
  /\ listed = [t \in Transports |-> NotListed]
  /\ inv = [i \in 1..MaxInv |-> Idle]

\* A server process calls neither formatter.
NoFormatterCall ==
  /\ segmenter = TRUE
  /\ textIn = Undefined /\ shown = NotCalled /\ reshown = NotCalled
  /\ data = Undefined /\ rtlFields = <<"title", "notes">> /\ json = NotCalled

\* One server process, stdio or HTTP, just constructed.
Init == server \in Transports /\ InitState /\ NoFormatterCall /\ NoOtherCall

Runs(t) == server \in {t, "both"}

\* ------------------------------------------------------------- ListTools

IsReadOnlyTool(tool) == tool.name \in READ_ONLY_TOOLS

\* A listing that ignores the policy.
getAvailableTools_Unfiltered(readOnly) == TOOL_DEFINITIONS

\* GoogleTasksHTTPServer.getAvailableTools
getAvailableTools(readOnly) ==
  IF readOnly THEN SelectSeq(TOOL_DEFINITIONS, IsReadOnlyTool) ELSE TOOL_DEFINITIONS

HttpListTools ==
  /\ Runs("http")
  /\ listed' = [listed EXCEPT !["http"] = getAvailableTools(READ_ONLY)]
  /\ UNCHANGED <<server, processEnv, READ_ONLY, tokenFile, tasksClient, constructed, inv,
                 formatVars, otherVars>>

StdioListTools ==
  /\ Runs("stdio")
  /\ listed' = [listed EXCEPT !["stdio"] = TOOL_DEFINITIONS]
  /\ UNCHANGED <<server, processEnv, READ_ONLY, tokenFile, tasksClient, constructed, inv,
                 formatVars, otherVars>>

\* -------------------------------------------------- the CallTool handler

\* A gate that forgets one of the mutating tools.
PolicyDenies_Partial(readOnly, name) == readOnly /\ name \in MUTATING_TOOLS \ {"delete_task"}

\* A gate that also denies get_auth_url, which the read-only catalog lists.
PolicyDenies_AlsoAuthUrl(readOnly, name) ==
  readOnly /\ name \in MUTATING_TOOLS \cup {"get_auth_url"}

\* The read-only gate of the HTTP handler: READ_ONLY && MUTATING_TOOLS.has(name).
PolicyDenies(readOnly, name) == readOnly /\ name \in MUTATING_TOOLS

\* A handler without the get_auth_url special case.
IsAuthUrlCall_Never(name) == FALSE

\* The special case that needs no authenticated client: name === 'get_auth_url'.
IsAuthUrlCall(name) == name = "get_auth_url"

\* The text of the get_auth_url response; "authUrl" stands for
\* authManager.getAuthUrl(), a locally generated URL.
AuthUrlText == <<"Please visit this URL to authorize the application:\n\n", "authUrl">>

\* The cases of the handler's switch: the GoogleTasksClient method each one
\* calls and the request fields it passes on (an absent field is passed as
\* undefined; nothing checks inputSchema.required).
SwitchCases ==
  [list_task_lists  |-> [method |-> "tasklists.list",   fields |-> {}],
   list_tasks       |-> [method |-> "tasks.list",       fields |-> {"taskListId"}],
   create_task_list |-> [method |-> "tasklists.insert", fields |-> {"title"}],
   create_task      |-> [method |-> "tasks.insert",     fields |-> {"taskListId", "title"}],
   update_task      |-> [method |-> "tasks.patch",      fields |-> {"taskListId", "taskId", "title"}],
   delete_task      |-> [method |-> "tasks.delete",     fields |-> {"taskListId", "taskId"}]]

\* The handler throws `error` inside its try block: the catch block decides
\* what the caller receives.
Throw(r, error) ==
  [r EXCEPT !.pc = "done", !.thrown = error,
            !.result = [ok |-> FALSE, code |-> CatchBlock(error).code,
                        message |-> CatchBlock(error).message]]

\* The handler returns { content: [{ type: 'text', text }] }.
Return(r, text) ==
  [r EXCEPT !.pc = "done", !.result = [ok |-> TRUE, code |-> "none", message |-> text]]

\* switch (name) with the client handle in hand: a case starts its tasks API
\* request and waits for it, the default case throws MethodNotFound.
Switch(r, client) ==
  IF r.name \in DOMAIN SwitchCases
    THEN [r EXCEPT !.pc = "api", !.client = client, !.apiCalls = r.apiCalls + 1,
                   !.api = [method |-> SwitchCases[r.name].method,
                            passed |-> r.args \cap SwitchCases[r.name].fields]]
    ELSE Throw([r EXCEPT !.client = client],
               McpError("MethodNotFound", UnknownToolMessage(r.name)))

\* initializeClient up to its first await: with an empty cell it calls
\* authManager.getAuthClient(), which starts loadToken; with a cached handle
\* it returns the handle and the handler goes on to the switch.
initializeClient(r, cell) ==
  IF cell = 0
    THEN [r EXCEPT !.pc = "loadToken", !.initCalls = r.initCalls + 1,
                   !.authCalls = r.authCalls + 1]
    ELSE Switch([r EXCEPT !.initCalls = r.initCalls + 1], cell)

\* The part of both handlers after the policy gate.
Dispatch(r, cell) ==
  IF IsAuthUrlCall(r.name) THEN Return(r, AuthUrlText) ELSE initializeClient(r, cell)

\* GoogleTasksHTTPServer's CallTool handler up to its first await.
HttpHandler(r, readOnly, cell) ==
  IF PolicyDenies(readOnly, r.name)
    THEN Throw(r, McpError("InvalidRequest", ReadOnlyMessage(r.name)))
    ELSE Dispatch(r, cell)

\* A stdio handler that sends get_auth_url through initializeClient too.
StdioHandler_NoSpecialCase(r, cell) == initializeClient(r, cell)

\* GoogleTasksMCPServer's CallTool handler up to its first await: the same
\* handler without the policy gate.
StdioHandler(r, cell) == Dispatch(r, cell)

Received(t, name, args) ==
  [Idle EXCEPT !.pc = "received", !.transport = t, !.name = name, !.args = args]

NextToArrive(i) == inv[i].pc = "idle" /\ (IF i = 1 THEN TRUE ELSE inv[i - 1].pc # "idle")

HttpArrives(i, name, args) ==
  /\ server = "http"
  /\ NextToArrive(i)
  /\ inv' = [inv EXCEPT ![i] =
               HttpHandler(Received("http", name, args), READ_ONLY, tasksClient["http"])]
  /\ UNCHANGED <<server, processEnv, READ_ONLY, tokenFile, tasksClient, constructed, listed,
                 formatVars, otherVars>>

StdioArrives(i, name, args) ==
  /\ server = "stdio"
  /\ NextToArrive(i)
  /\ inv' = [inv EXCEPT ![i] = StdioHandler(Received("stdio", name, args), tasksClient["stdio"])]
  /\ UNCHANGED <<server, processEnv, READ_ONLY, tokenFile, tasksClient, constructed, listed,
                 formatVars, otherVars>>

\* A CallTool request with every field present arrives at the HTTP server.
HttpCallTool(i) == \E name \in RequestNames : HttpArrives(i, name, AllFields)

\* A CallTool request with every field present arrives at the stdio server.
StdioCallTool(i) == \E name \in RequestNames : StdioArrives(i, name, AllFields)

\* A CallTool request with any of the argument bags arrives.
HttpCallToolWithArgs(i) ==
  \E name \in RequestNames, args \in ArgChoices : HttpArrives(i, name, args)

StdioCallToolWithArgs(i) ==
  \E name \in RequestNames, args \in ArgChoices : StdioArrives(i, name, args)

\* The same CallTool request arrives at the stdio server (invocation 1) and at
\* the HTTP server (invocation 2), two processes run side by side.
PairCallTool ==
  /\ server = "both"
  /\ inv[1].pc = "idle" /\ inv[2].pc = "idle"
  /\ \E name \in RequestNames, args \in ArgChoices :
       inv' = [inv EXCEPT
                 ![1] = StdioHandler(Received("stdio", name, args), tasksClient["stdio"]),
                 ![2] = HttpHandler(Received("http", name, args), READ_ONLY, tasksClient["http"])]
  /\ UNCHANGED <<server, processEnv, READ_ONLY, tokenFile, tasksClient, constructed, listed,
                 formatVars, otherVars>>

\* A provider failure that is remembered: the cell is filled with a broken
\* handle when the token file is missing.
LoadTokenReturns_CachesFailure(i) ==
  /\ inv[i].pc = "loadToken"
  /\ IF tokenFile = "absent"
       THEN /\ inv' = [inv EXCEPT ![i] =
                         Throw([inv[i] EXCEPT !.authAnswer = "noFile"], getAuthClientError)]
            /\ tasksClient' = [tasksClient EXCEPT ![inv[i].transport] = -1]
       ELSE /\ inv' = [inv EXCEPT ![i] = [inv[i] EXCEPT !.pc = "getAccessToken"]]
            /\ UNCHANGED tasksClient
  /\ UNCHANGED <<server, processEnv, READ_ONLY, tokenFile, constructed, listed,
                 formatVars, otherVars>>

\* getAuthClient: loadToken's fs.readFile settles.  A missing or unreadable
\* file makes getAuthClient throw; otherwise setCredentials(token) and the
\* call of getAccessToken follow at once.
LoadTokenReturns(i) ==
  /\ inv[i].pc = "loadToken"
  /\ inv' = [inv EXCEPT ![i] =
               IF tokenFile = "absent"
                 THEN Throw([inv[i] EXCEPT !.authAnswer = "noFile"], getAuthClientError)
                 ELSE [inv[i] EXCEPT !.pc = "getAccessToken"]]
  /\ UNCHANGED <<server, processEnv, READ_ONLY, tokenFile, tasksClient, constructed, listed,
                 formatVars, otherVars>>

\* getAuthClient: getAccessToken settles.  When Google accepts the loaded
\* credentials getAuthClient returns, initializeClient builds a
\* GoogleTasksClient, stores it in this.tasksClient and returns it, and the
\* handler goes on to the switch; when it rejects them getAuthClient throws.
GetAccessTokenReturns(i) ==
  /\ inv[i].pc = "getAccessToken"
  /\ LET t == inv[i].transport
         handle == constructed[t] + 1
     IN \/ /\ constructed' = [constructed EXCEPT ![t] = handle]
           /\ tasksClient' = [tasksClient EXCEPT ![t] = handle]
           /\ inv' = [inv EXCEPT ![i] = Switch([inv[i] EXCEPT !.authAnswer = "accepted"], handle)]
        \/ /\ inv' = [inv EXCEPT ![i] =
                        Throw([inv[i] EXCEPT !.authAnswer = "rejected"], getAuthClientError)]
           /\ UNCHANGED <<tasksClient, constructed>>
  /\ UNCHANGED <<server, processEnv, READ_ONLY, tokenFile, listed, formatVars, otherVars>>

\* The text a successful case returns.
SuccessText(r) ==
  IF r.name = "delete_task"
    THEN <<"Task deleted successfully">>
    ELSE <<"JSON.stringify", r.api.method>>

\* The tasks API request of a case settles: the case returns its text, or the
\* rejection is thrown into the catch block.
ApiReturns(i) ==
  /\ inv[i].pc = "api"
  /\ \/ inv' = [inv EXCEPT ![i] = Return([inv[i] EXCEPT !.apiAnswer = <<"ok">>], SuccessText(inv[i]))]
     \/ \E e \in ApiErrors :
          inv' = [inv EXCEPT ![i] = Throw([inv[i] EXCEPT !.apiAnswer = e], PlainError(e))]
  /\ UNCHANGED <<server, processEnv, READ_ONLY, tokenFile, tasksClient, constructed, listed,
                 formatVars, otherVars>>

\* ------------------------------------------------------- the environment

\* scripts/setup-auth.ts: authenticate(code) saves a fresh token to TOKEN_PATH.
SetupAuth ==
  /\ tokenFile = "absent"
  /\ tokenFile' = "present"
  /\ UNCHANGED <<server, processEnv, READ_ONLY, tasksClient, constructed, listed, inv,
                 formatVars, otherVars>>

\* The token file is removed (or made unreadable): loadToken will fail.
TokenLost ==
  /\ tokenFile = "present"
  /\ tokenFile' = "absent"
  /\ UNCHANGED <<server, processEnv, READ_ONLY, tasksClient, constructed, listed, inv,
                 formatVars, otherVars>>

\* ------------------------------------------------------ formatForTerminal

\* if (!text): null, undefined, the empty string, 0.
IsFalsy_EmptyString(v) == v.type = "string" /\ v.units = <<>>

IsFalsy(v) ==
  \/ v.type \in {"null", "undefined"}
  \/ v.type = "string" /\ v.units = <<>>
  \/ v.type = "number" /\ v.n = 0

\* One code unit against the character class of the hasRTL regular expression:
\* u0590-u05FF, u0600-u06FF, u0750-u077F, uFB50-uFDFF, uFE70-uFEFF.
InRTLRanges(u) ==
  \/ u >= 1424 /\ u <= 1535
  \/ u >= 1536 /\ u <= 1791
  \/ u >= 1872 /\ u <= 1919
  \/ u >= 64336 /\ u <= 65023
  \/ u >= 65136 /\ u <= 65279

\* A test that asks for a majority of RTL code units.
hasRTL_Majority(units) ==
  2 * Cardinality({k \in 1..Len(units) : InRTLRanges(units[k])}) > Len(units)

\* A test that takes every code unit outside ASCII for RTL.
hasRTL_NonAscii(units) == \E k \in 1..Len(units) : units[k] > 127

\* hasRTL: the regular expression finds a match when some code unit of the
\* string is in one of the ranges.
hasRTL(units) == \E k \in 1..Len(units) : InRTLRanges(units[k])

\* join(''): the parts one after the other.
RECURSIVE Join(_)
Join(parts) == IF parts = <<>> THEN <<>> ELSE Head(parts) \o Join(Tail(parts))

\* A "reversal" that moves the last element to the front.
Reverse_Rotated(parts) ==
  IF parts = <<>> THEN parts ELSE <<parts[Len(parts)]>> \o SubSeq(parts, 1, Len(parts) - 1)

\* Array.prototype.reverse
Reverse(parts) == [k \in 1..Len(parts) |-> parts[Len(parts) + 1 - k]]

IsHighSurrogate(u) == u >= 55296 /\ u <= 56319

IsLowSurrogate(u) == u >= 56320 /\ u <= 57343

\* The string iterated by codepoint, as the segmenter reads it: a high
\* surrogate followed by a low one is one codepoint of two code units.
RECURSIVE CodePoints(_)
CodePoints(units) ==
  IF units = <<>> THEN <<>>
  ELSE IF Len(units) >= 2 /\ IsHighSurrogate(units[1]) /\ IsLowSurrogate(units[2])
    THEN <<SubSeq(units, 1, 2)>> \o CodePoints(SubSeq(units, 3, Len(units)))
    ELSE <<SubSeq(units, 1, 1)>> \o CodePoints(Tail(units))

\* The number of a codepoint given by its code units.
CodePointValue(s) ==
  IF Len(s) = 2 THEN 65536 + (s[1] - 55296) * 1024 + (s[2] - 56320) ELSE s[1]

\* The Grapheme_Cluster_Break class the segmenter gives a codepoint (Unicode
\* UAX #29), for the blocks the inputs are drawn from: U+200D is ZWJ; the
\* combining diacritics U+0300-036F, the Hebrew points U+0591-05BD, 05BF,
\* 05C1-05C2, 05C4-05C5, 05C7, the Arabic marks U+064B-065F, 0670, the
\* variation selectors U+FE00-FE0F and the emoji modifiers U+1F3FB-1F3FF are
\* Extend; the emoji U+1F400-1F4FF are Extended_Pictographic.
GraphemeClusterBreak(cp) ==
  IF cp = 8205 THEN "ZWJ"
  ELSE IF \/ cp >= 768 /\ cp <= 879
          \/ cp >= 1425 /\ cp <= 1469
          \/ cp \in {1471, 1473, 1474, 1476, 1477, 1479}
          \/ cp >= 1611 /\ cp <= 1631
          \/ cp = 1648
          \/ cp >= 65024 /\ cp <= 65039
          \/ cp >= 127995 /\ cp <= 127999
    THEN "Extend"
  ELSE IF cp >= 128000 /\ cp <= 128255 THEN "ExtPict"
  ELSE "Other"

\* The segmenter's pass over the codepoints still to read: `closed` are the
\* clusters found, `open` the cluster being read and `emoji` whether `open`
\* reads Extended_Pictographic Extend* ("pict") or that followed by ZWJ
\* ("joined").  There is no boundary before Extend or ZWJ (GB9) nor between
\* a "joined" cluster and an Extended_Pictographic (GB11); there is one
\* everywhere else (GB999).
RECURSIVE Segment(_, _, _, _)
Segment(rest, closed, open, emoji) ==
  IF rest = <<>>
    THEN IF open = <<>> THEN closed ELSE Append(closed, open)
    ELSE LET s == Head(rest)
             c == GraphemeClusterBreak(CodePointValue(s))
             attach == /\ open # <<>>
                       /\ c \in {"Extend", "ZWJ"} \/ (c = "ExtPict" /\ emoji = "joined")
             next == IF c = "ExtPict" THEN "pict"
                     ELSE IF ~attach THEN "no"
                     ELSE IF c = "Extend" /\ emoji = "pict" THEN "pict"
                     ELSE IF c = "ZWJ" /\ emoji = "pict" THEN "joined"
                     ELSE "no"
         IN IF attach
              THEN Segment(Tail(rest), closed, open \o s, next)
              ELSE Segment(Tail(rest), IF open = <<>> THEN closed ELSE Append(closed, open),
                           s, next)

\* A segmentation that makes every code unit a segment.
Graphemes_PerCodeUnit(units) == [k \in 1..Len(units) |-> <<units[k]>>]

\* Array.from(new Intl.Segmenter('en', { granularity: 'grapheme' })
\*   .segment(text), segment => segment.segment)
Graphemes(units) == Segment(CodePoints(units), <<>>, <<>>, "no")

\* A split that keeps the two code units of a codepoint together.
Split_ByCodePoint(units) == CodePoints(units)

\* text.split(''): one element per UTF-16 code unit.
Split(units) == [k \in 1..Len(units) |-> <<units[k]>>]

\* formatForTerminal(text) in a runtime with or without Intl.Segmenter.  (A
\* truthy value that is no string has no RTL character in its string form and
\* is returned as it is.)
formatForTerminal(t) ==
  IF IsFalsy(t) THEN Str(<<>>)
  ELSE IF t.type = "string" /\ hasRTL(t.units)
    THEN IF segmenter
           THEN Str(Join(Reverse(Graphemes(t.units))))
           ELSE Str(Join(Reverse(Split(t.units))))
    ELSE t

\* The UTF-16 code units of a codepoint.
Utf16(cp) ==
  IF cp >= 65536
    THEN <<55296 + ((cp - 65536) \div 1024), 56320 + ((cp - 65536) % 1024)>>
    ELSE <<cp>>

\* The string with the given codepoints.
StringOf(cps) == Str(Join([k \in 1..Len(cps) |-> Utf16(cps[k])]))

\* The codepoints the strings are written with: H, 1, the Hebrew letters shin
\* and final mem, the Hebrew point qamats (U+05B8, a combining mark), the
\* zero-width joiner (U+200D) and the emoji U+1F44B (a surrogate pair).
Alphabet == {72, 49, 1513, 1501, 1464, 8205, 128075}

\* The values formatForTerminal is called with: null, undefined and every
\* string of up to MaxLen codepoints.
TextInputs ==
  {Null, Undefined} \cup {StringOf(cps) : cps \in UNION {[1..n -> Alphabet] : n \in 0..MaxLen}}

\* formatForTerminal(text) is called and returns.
FormatForTerminal ==
  /\ shown = NotCalled
  /\ shown' = formatForTerminal(textIn)
  /\ UNCHANGED <<serverVars, otherVars, segmenter, textIn, reshown, data, rtlFields, json>>

\* formatForTerminal is called with the string it returned.
FormatForTerminalAgain ==
  /\ shown # NotCalled /\ reshown = NotCalled
  /\ reshown' = formatForTerminal(shown)
  /\ UNCHANGED <<serverVars, otherVars, segmenter, textIn, shown, data, rtlFields, json>>

\* -------------------------------------------------- formatJsonForTerminal

\* rtlFields.includes(key)
Includes(fields, key) == \E k \in 1..Len(fields) : fields[k] = key

\* A test that formats the strings of every key.
IsRtlField_AnyKey(fields, key, value) == value.type = "string"

\* rtlFields.includes(key) && typeof value === 'string'
IsRtlField(fields, key, value) == Includes(fields, key) /\ value.type = "string"

\* typeof value === 'object': an object, an array, or null.
TypeofObject(v) == v.type \in {"object", "array", "null"}

\* An enumeration that misses the first entry.
ObjectEntries_WithoutFirst(d) == IF d.entries = <<>> THEN <<>> ELSE Tail(d.entries)

\* Object.entries(data): the entries of the object, in the object's order.
ObjectEntries(d) == d.entries

\* formatJsonForTerminal(data, rtlFields): a falsy value is returned as it is,
\* an array is mapped item by item, an object is rebuilt entry by entry (a
\* string under a listed key through formatForTerminal, an object, array or
\* null through this function, anything else as it is), any other value is
\* returned as it is.
RECURSIVE formatJsonForTerminal(_, _)
formatJsonForTerminal(d, fields) ==
  IF IsFalsy(d) THEN d
  ELSE IF d.type = "array"
    THEN Arr([k \in 1..Len(d.items) |-> formatJsonForTerminal(d.items[k], fields)])
  ELSE IF d.type = "object"
    THEN Obj([k \in 1..Len(ObjectEntries(d)) |->
                [key |-> ObjectEntries(d)[k].key,
                 value |->
                   IF IsRtlField(fields, ObjectEntries(d)[k].key, ObjectEntries(d)[k].value)
                     THEN formatForTerminal(ObjectEntries(d)[k].value)
                   ELSE IF TypeofObject(ObjectEntries(d)[k].value)
                     THEN formatJsonForTerminal(ObjectEntries(d)[k].value, fields)
                   ELSE ObjectEntries(d)[k].value]])
  ELSE d

\* The strings the data holds: "Hi", and two Hebrew letters with an emoji.
JsonStrings == {Str(<<72, 105>>), StringOf(<<1513, 1501, 128075>>)}

JsonLeaves == {Null, Num(7)} \cup JsonStrings

\* The arrays of up to MaxItems values of V.
Lists(V) == {Arr(items) : items \in UNION {[1..n -> V] : n \in 0..MaxItems}}

Entry(key, value) == [key |-> key, value |-> value]

\* Objects with the keys title and id, in the shape of a task.
Tasks(V) ==
  {Obj(<<>>)}
    \cup {Obj(<<Entry(k, v)>>) : k \in {"title", "id"}, v \in V}
    \cup {Obj(<<Entry("title", t), Entry("id", i)>>) : t \in V, i \in V}

\* Values one level deep.
Inner == JsonLeaves \cup Lists(JsonLeaves) \cup Tasks(JsonLeaves)

\* The values formatJsonForTerminal is called with: undefined, the values one
\* level deep, an object holding one of those under a listed or an unlisted
\* key, and the arrays of up to MaxItems tasks.
JsonInputs ==
  {Undefined}
    \cup Inner
    \cup {Obj(<<Entry(k, v)>>) : k \in {"title", "task"}, v \in Inner}
    \cup Lists({Obj(<<Entry("title", t), Entry("id", i)>>) : t \in JsonLeaves, i \in JsonStrings})

\* The rtlFields arguments: the default, and a list that names id alone.
RtlFieldChoices == {<<"title", "notes">>, <<"id">>}

\* formatJsonForTerminal(data, rtlFields) is called and returns.
FormatJsonForTerminal ==
  /\ json = NotCalled
  /\ json' = formatJsonForTerminal(data, rtlFields)
  /\ UNCHANGED <<serverVars, otherVars, segmenter, textIn, shown, reshown, data, rtlFields>>

\* -------------------------------------------------------- specifications

\* One server process receiving up to MaxInv requests whose handlers interleave.
Next ==
  \/ \E i \in 1..MaxInv : HttpCallTool(i)
  \/ \E i \in 1..MaxInv : StdioCallTool(i)
  \/ \E i \in 1..MaxInv : LoadTokenReturns(i)
  \/ \E i \in 1..MaxInv : GetAccessTokenReturns(i)
  \/ \E i \in 1..MaxInv : ApiReturns(i)
  \/ SetupAuth
  \/ TokenLost

Spec == Init /\ [][Next]_vars

\* The same, with requests that may leave fields out.
NextArgs ==
  \/ \E i \in 1..MaxInv : HttpCallToolWithArgs(i)
  \/ \E i \in 1..MaxInv : StdioCallToolWithArgs(i)
  \/ \E i \in 1..MaxInv : LoadTokenReturns(i)
  \/ \E i \in 1..MaxInv : GetAccessTokenReturns(i)
  \/ \E i \in 1..MaxInv : ApiReturns(i)
  \/ SetupAuth
  \/ TokenLost

SpecArgs == Init /\ [][NextArgs]_vars

\* The stdio process and the HTTP process side by side: each answers ListTools
\* and both are given the same CallTool request.
InitPair == server = "both" /\ InitState /\ NoFormatterCall /\ NoOtherCall

NextPair ==
  \/ HttpListTools
  \/ StdioListTools
  \/ PairCallTool
  \/ \E i \in 1..2 : LoadTokenReturns(i)
  \/ \E i \in 1..2 : GetAccessTokenReturns(i)
  \/ \E i \in 1..2 : ApiReturns(i)
  \/ SetupAuth
  \/ TokenLost

SpecPair == InitPair /\ [][NextPair]_vars

\* No server runs: a script or a test calls the formatters.
NoServer ==
  /\ server = "none" /\ processEnv = Undefined /\ READ_ONLY = TRUE /\ tokenFile = "absent"
  /\ tasksClient = [t \in Transports |-> 0]
  /\ constructed = [t \in Transports |-> 0]
  /\ listed = [t \in Transports |-> NotListed]
  /\ inv = [i \in 1..MaxInv |-> Idle]

\* formatForTerminal applied to one value, and to its result, in a runtime
\* with or without Intl.Segmenter.
InitFormat ==
  /\ NoServer /\ NoOtherCall
  /\ segmenter \in BOOLEAN
  /\ textIn \in TextInputs
  /\ shown = NotCalled /\ reshown = NotCalled
  /\ data = Undefined /\ rtlFields = <<"title", "notes">> /\ json = NotCalled

NextFormat == FormatForTerminal \/ FormatForTerminalAgain

SpecFormat == InitFormat /\ [][NextFormat]_vars

\* formatJsonForTerminal applied to one value.
InitJson ==
  /\ NoServer /\ NoOtherCall
  /\ segmenter \in BOOLEAN
  /\ textIn = Undefined /\ shown = NotCalled /\ reshown = NotCalled
  /\ data \in JsonInputs /\ rtlFields \in RtlFieldChoices /\ json = NotCalled

NextJson == FormatJsonForTerminal

SpecJson == InitJson /\ [][NextJson]_vars

\* The HTTP server process started with any of the READ_ONLY settings: unset,
\* 'false', 'true' and 'FALSE'.  Nothing writes process.env afterwards.
EnvValues == {Undefined, EnvFalse, EnvTrue, EnvFALSE}

InitEnv ==
  /\ server = "http"
  /\ processEnv \in EnvValues
  /\ READ_ONLY = ReadOnlyMode(processEnv)
  /\ tokenFile = "present"
  /\ tasksClient = [t \in Transports |-> 0]
  /\ constructed = [t \in Transports |-> 0]
  /\ listed = [t \in Transports |-> NotListed]
  /\ inv = [i \in 1..MaxInv |-> Idle]
  /\ NoFormatterCall /\ NoOtherCall

NextEnv ==
  \/ HttpListTools
  \/ \E i \in 1..MaxInv : HttpCallTool(i)
  \/ \E i \in 1..MaxInv : LoadTokenReturns(i)
  \/ \E i \in 1..MaxInv : GetAccessTokenReturns(i)
  \/ \E i \in 1..MaxInv : ApiReturns(i)

SpecEnv == InitEnv /\ [][NextEnv]_vars

\* ------------------------------------------ GoogleTasksClient.updateTask

\* The fields of `updates`, in the order updateTask looks at them.
UpdateFields == <<"title", "notes", "due", "status">>

\* A test that takes an empty or null value for a missing one.
IsDefined_Truthy(v) == ~IsFalsy(v)

\* updates.field !== undefined
IsDefined(v) == v # Undefined

HasDefinedValue(entry) == IsDefined(entry.value)

\* requestBody: { id: taskId }, then one assignment for each field of
\* `updates` that is not undefined.
RequestBody(taskId, updates) ==
  Obj(<<Entry("id", taskId)>>
        \o SelectSeq([k \in 1..Len(UpdateFields) |->
                        Entry(UpdateFields[k], updates[UpdateFields[k]])],
                     HasDefinedValue))

\* An updateTask call that waits for, or was answered by, the tasks API.
Pending == [type |-> "pending"]

Rejected(e) == [type |-> "rejected", error |-> PlainError(e)]

\* The strings T, N, D and completed, and the ids of lists and tasks.
UpdateStrings == {Str(<<>>), Str(<<84>>)}

TaskIds == {Str(<<116, 49>>), Str(<<116, 50>>)}

TaskListIds == {Str(<<76, 49>>)}

\* The `updates` arguments: a field is missing (read as undefined), or
\* carries a string, which may be empty; notes may also be null.
UpdateChoices ==
  [title : {Undefined} \cup UpdateStrings,
   notes : {Undefined, Null} \cup UpdateStrings,
   due : {Undefined, Str(<<68>>)},
   status : {Undefined, Str(<<99, 111, 109, 112, 108, 101, 116, 101, 100>>)}]

\* updateTask up to its await: it builds requestBody and calls
\* tasksApi.tasks.patch once.
UpdateTask ==
  /\ updated = NotCalled
  /\ patchCalls' = Append(patchCalls,
                          [tasklist |-> updateArgs.taskListId,
                           task |-> updateArgs.taskId,
                           requestBody |-> RequestBody(updateArgs.taskId, updateArgs.updates)])
  /\ updated' = Pending
  /\ UNCHANGED <<serverVars, formatVars, heapVars, httpVars, authVars, updateArgs>>

\* tasks.patch settles: updateTask returns response.data, the task as the
\* API holds it now, or the rejection goes to the caller.
PatchReturns ==
  /\ updated = Pending
  /\ \/ updated' = [type |-> "task", id |-> updateArgs.taskId]
     \/ \E e \in ApiErrors : updated' = Rejected(e)
  /\ UNCHANGED <<serverVars, formatVars, heapVars, httpVars, authVars, updateArgs, patchCalls>>

\* One updateTask call on a client built by a test or by the server.
InitUpdate ==
  /\ NoServer /\ NoFormatterCall /\ NoHeapCall /\ NoHttpRequest /\ NoSaveToken
  /\ updateArgs \in [taskListId : TaskListIds, taskId : TaskIds, updates : UpdateChoices]
  /\ patchCalls = <<>>
  /\ updated = NotCalled

NextUpdate == UpdateTask \/ PatchReturns

SpecUpdate == InitUpdate /\ [][NextUpdate]_vars

\* ---------------------------------- formatJsonForTerminal, by reference

\* An array or an object is a cell of the heap and a value refers to it by its
\* address, so that two containers with equal content are still two
\* containers.  The items of an array cell and the values of an object cell
\* are primitives or references.
Ref(a) == [type |-> "ref", addr |-> a]

\* A JSON value is built in the heap, the contained values first: the heap
\* after it and the value that stands for it.
RECURSIVE Alloc(_, _), AllocAll(_, _, _)
Alloc(h, v) ==
  IF v.type = "array"
    THEN LET r == AllocAll(h, v.items, <<>>)
         IN [heap |-> Append(r.heap, Arr(r.values)), value |-> Ref(Len(r.heap) + 1)]
  ELSE IF v.type = "object"
    THEN LET r == AllocAll(h, [k \in 1..Len(v.entries) |-> v.entries[k].value], <<>>)
         IN [heap |-> Append(r.heap,
                             Obj([k \in 1..Len(v.entries) |->
                                    Entry(v.entries[k].key, r.values[k])])),
             value |-> Ref(Len(r.heap) + 1)]
  ELSE [heap |-> h, value |-> v]

AllocAll(h, vs, done) ==
  IF Len(done) = Len(vs) THEN [heap |-> h, values |-> done]
  ELSE LET r == Alloc(h, vs[Len(done) + 1])
       IN AllocAll(r.heap, vs, Append(done, r.value))

\* The JSON value a heap value stands for.
RECURSIVE Load(_, _)
Load(h, v) ==
  IF v.type # "ref" THEN v
  ELSE IF h[v.addr].type = "array"
    THEN Arr([k \in 1..Len(h[v.addr].items) |-> Load(h, h[v.addr].items[k])])
  ELSE Obj([k \in 1..Len(h[v.addr].entries) |->
              Entry(h[v.addr].entries[k].key, Load(h, h[v.addr].entries[k].value))])

\* An allocation that hands out an existing container when one with the same
\* content is there.
New_ReuseEqual(h, cell) ==
  IF \E a \in 1..Len(h) : h[a] = cell
    THEN [heap |-> h, value |-> Ref(CHOOSE a \in 1..Len(h) : h[a] = cell)]
    ELSE [heap |-> Append(h, cell), value |-> Ref(Len(h) + 1)]

\* The array data.map returns and the object `const formatted: any = {}`
\* creates, once filled: a new cell of the heap.
New(h, cell) == [heap |-> Append(h, cell), value |-> Ref(Len(h) + 1)]

\* Array.isArray(data)
IsArray(h, v) == v.type = "ref" /\ h[v.addr].type = "array"

\* typeof value === 'object', of a heap value
IsTypeofObject(v) == v.type = "ref" \/ TypeofObject(v)

\* formatJsonForTerminal(data, rtlFields) as it acts on the heap: it reads the
\* cells of its argument and writes only to the containers it creates.
RECURSIVE formatJsonInHeap(_, _, _), MapItems(_, _, _, _), FormatEntries(_, _, _, _)
formatJsonInHeap(h, v, fields) ==
  IF IsFalsy(v) THEN [heap |-> h, value |-> v]
  ELSE IF IsArray(h, v)
    THEN LET r == MapItems(h, h[v.addr].items, fields, <<>>)
         IN New(r.heap, Arr(r.values))
  ELSE IF IsTypeofObject(v)
    THEN LET r == FormatEntries(h, h[v.addr].entries, fields, <<>>)
         IN New(r.heap, Obj(r.values))
  ELSE [heap |-> h, value |-> v]

\* data.map(item => formatJsonForTerminal(item, rtlFields)), item by item.
MapItems(h, items, fields, done) ==
  IF Len(done) = Len(items) THEN [heap |-> h, values |-> done]
  ELSE LET r == formatJsonInHeap(h, items[Len(done) + 1], fields)
       IN MapItems(r.heap, items, fields, Append(done, r.value))

\* The loop over Object.entries(data), entry by entry.
FormatEntries(h, entries, fields, done) ==
  IF Len(done) = Len(entries) THEN [heap |-> h, values |-> done]
  ELSE LET e == entries[Len(done) + 1]
           r == IF IsRtlField(fields, e.key, e.value)
                  THEN [heap |-> h, value |-> formatForTerminal(e.value)]
                ELSE IF IsTypeofObject(e.value)
                  THEN formatJsonInHeap(h, e.value, fields)
                ELSE [heap |-> h, value |-> e.value]
       IN FormatEntries(r.heap, entries, fields, Append(done, Entry(e.key, r.value)))

\* A task that is an item of an array twice: one object, two references.
SharedTask ==
  [heap |-> <<Obj(<<Entry("title", StringOf(<<1513, 1501, 128075>>))>>),
              Arr(<<Ref(1), Ref(1)>>)>>,
   value |-> Ref(2)]

\* The arguments: every value of JsonInputs built in an empty heap, and the
\* array that holds one task twice.
HeapInputs == {Alloc(<<>>, v) : v \in JsonInputs} \cup {SharedTask}

\* formatJsonForTerminal(data, rtlFields) is called and returns.
FormatJsonInHeap ==
  /\ jsonRef = NotCalled
  /\ LET r == formatJsonInHeap(heap, dataRef, rtlFields)
     IN heap' = r.heap /\ jsonRef' = r.value
  /\ UNCHANGED <<serverVars, formatVars, httpVars, clientVars, authVars, dataRef>>

InitHeap ==
  /\ NoServer /\ NoHttpRequest /\ NoUpdateTask /\ NoSaveToken
  /\ segmenter \in BOOLEAN
  /\ textIn = Undefined /\ shown = NotCalled /\ reshown = NotCalled
  /\ data = Undefined /\ rtlFields \in RtlFieldChoices /\ json = NotCalled
  /\ \E input \in HeapInputs : heap = input.heap /\ dataRef = input.value
  /\ jsonRef = NotCalled

NextHeap == FormatJsonInHeap

SpecHeap == InitHeap /\ [][NextHeap]_vars

\* ------------------------------------------------ the HTTP front (Express)

\* Requests the rate limiter lets through in one window (RATE_LIMIT_MAX).
RATE_LIMIT_MAX == 2

\* Event-stream connections that can be open at once.
MaxConn == 2

\* The value of MCP_TOKEN, at least 32 characters long.
MCP_TOKEN == "0123456789abcdef0123456789abcdef"

\* A header value or a token: a string, kept as its pieces (words and the
\* white space between them).
Header(pieces) == [type |-> "string", pieces |-> pieces]

\* /^Bearer\s+/i : the word in any case, then white space.
IsBearerWord(piece) == piece \in {"Bearer", "bearer", "BEARER"}

IsSpace(piece) == piece = " "

RECURSIVE DropSpaces(_)
DropSpaces(pieces) ==
  IF pieces # <<>> /\ IsSpace(Head(pieces)) THEN DropSpaces(Tail(pieces)) ELSE pieces

\* authHeader.replace(/^Bearer\s+/i, ''): a leading Bearer with the white
\* space after it is cut off; any other value is left as it is.
StripBearer(header) ==
  IF Len(header.pieces) >= 2 /\ IsBearerWord(header.pieces[1]) /\ IsSpace(header.pieces[2])
    THEN Header(DropSpaces(Tail(header.pieces)))
    ELSE header

\* A comparison that accepts any token that is there.
TokenMatches_AnyToken(token) == token.pieces # <<>>

\* token === MCP_TOKEN
TokenMatches(token) == token = Header(<<MCP_TOKEN>>)

\* authMiddleware: 401 unless the token left of the Authorization header is
\* there, not empty, and equal to MCP_TOKEN; otherwise next().
authMiddleware(req) ==
  LET token == IF req.authorization = Undefined
                 THEN Undefined
                 ELSE StripBearer(req.authorization)
  IN IF token = Undefined THEN 401
     ELSE IF token.pieces = <<>> \/ ~TokenMatches(token) THEN 401
     ELSE 0

\* corsOptions.origin: no Origin header, or one the options allow.
CorsAllows(origin) == origin # "foreign"

\* app.use('/mcp', ...) mounts on /mcp and everything below it.
UnderMcp(path) == path \in {"/mcp/sse", "/mcp/message", "/mcp/other"}

\* A response sent by a middleware, and one sent by a route handler.
Answer(status) == [status |-> status, handler |-> "none"]

Handled(status, handler) == [status |-> status, handler |-> handler]

\* The middleware chain in the order of the app.use and route calls, for a
\* request that is the count+1st of its window: cors (an Origin that is not
\* allowed goes to the error handler, 500; OPTIONS is answered as preflight,
\* 204), the rate limiter on /mcp (429), express.json (a body that does not
\* parse goes to the error handler, 500), GET /health, authMiddleware on
\* /mcp (401), GET /mcp/sse, POST /mcp/message, and Express's 404.
Respond(req, count) ==
  IF ~CorsAllows(req.origin) THEN Answer(500)
  ELSE IF req.method = "OPTIONS" THEN Answer(204)
  ELSE IF UnderMcp(req.path) /\ count + 1 > RATE_LIMIT_MAX THEN Answer(429)
  ELSE IF req.body = "malformed" THEN Answer(500)
  ELSE IF req.method = "GET" /\ req.path = "/health" THEN Handled(200, "health")
  ELSE IF UnderMcp(req.path) /\ authMiddleware(req) = 401 THEN Answer(401)
  ELSE IF req.method = "GET" /\ req.path = "/mcp/sse" THEN Handled(200, "sse")
  ELSE IF req.method = "POST" /\ req.path = "/mcp/message" THEN Handled(200, "message")
  ELSE Answer(404)

\* The request reached the rate limiter, which counted it.
Counted(req) == CorsAllows(req.origin) /\ req.method # "OPTIONS" /\ UnderMcp(req.path)

Paths == {"/health", "/mcp/sse", "/mcp/message", "/mcp/other"}

Bearer == Header(<<"Bearer", " ", MCP_TOKEN>>)

\* Authorization headers: none, the empty one, Bearer with the token (also in
\* lower case with two blanks), the bare token, another token, another
\* scheme, Bearer with nothing after it, and Bearer glued to the token.
AuthHeaders ==
  {Undefined, Header(<<>>), Bearer, Header(<<"bearer", " ", " ", MCP_TOKEN>>),
   Header(<<MCP_TOKEN>>), Header(<<"Bearer", " ", "wrong-token">>),
   Header(<<"Basic", " ", MCP_TOKEN>>), Header(<<"Bearer", " ">>),
   Header(<<"Bearer", MCP_TOKEN>>)}

\* The requests: GET and POST of every path with every header; messages for
\* every session; requests of a browser with an Origin, preflights among
\* them; and a message whose body does not parse.
Requests ==
  {Req(m, p, "none", a, IF m = "POST" THEN "json" ELSE "none", 1) :
     m \in {"GET", "POST"}, p \in Paths, a \in AuthHeaders}
    \cup {Req("POST", "/mcp/message", "none", a, "json", c) :
            a \in {Undefined, Bearer}, c \in 1..MaxConn}
    \cup {Req(m, p, o, a, "none", 1) :
            m \in {"GET", "OPTIONS"}, p \in {"/health", "/mcp/sse"},
            o \in {"allowed", "foreign"}, a \in {Undefined, Bearer}}
    \cup {Req("POST", "/mcp/message", "none", a, "malformed", 1) : a \in {Undefined, Bearer}}

Min(a, b) == IF a < b THEN a ELSE b

\* The number the next connection gets.
FreeConn == CHOOSE c \in 1..MaxConn : c \notin sse /\ \A d \in 1..(c - 1) : d \in sse

\* A request arrives and is answered.  GET /mcp/sse builds an
\* SSEServerTransport on the response and connects the MCP server to it: a
\* connection is open.  POST /mcp/message answers 200 and ends; the handler
\* holds no transport and hands the body to none, so nothing is dispatched
\* and nothing is written to an event stream.
HttpRequest ==
  \E req \in Requests :
    LET res == Respond(req, hits)
    IN /\ res.handler = "sse" => Cardinality(sse) < MaxConn
       /\ hits' = IF Counted(req) THEN Min(hits + 1, RATE_LIMIT_MAX + 1) ELSE hits
       /\ sse' = IF res.handler = "sse" THEN sse \cup {FreeConn} ELSE sse
       /\ accepted' = IF res.handler = "message" /\ req.session \in sse
                         THEN accepted \cup {req.session}
                         ELSE accepted
       /\ lastRequest' = [request |-> req, status |-> res.status, handler |-> res.handler]
       /\ UNCHANGED <<serverVars, formatVars, heapVars, clientVars, authVars, sent>>

\* The rate limiter's window (windowMs) is over: its count starts again.
WindowExpires ==
  /\ hits > 0
  /\ hits' = 0
  /\ UNCHANGED <<serverVars, formatVars, heapVars, clientVars, authVars,
                 sse, lastRequest, accepted, sent>>

\* A client closes its event stream (req.on('close')).
SseCloses ==
  \E c \in sse :
    /\ sse' = sse \ {c}
    /\ accepted' = accepted \ {c}
    /\ sent' = sent \ {c}
    /\ UNCHANGED <<serverVars, formatVars, heapVars, clientVars, authVars, hits, lastRequest>>

\* The HTTP server listens, MCP_TOKEN set, no request served yet.
InitHttp ==
  /\ server = "http"
  /\ processEnv = Undefined /\ READ_ONLY = ReadOnlyMode(processEnv)
  /\ tokenFile = "present"
  /\ tasksClient = [t \in Transports |-> 0]
  /\ constructed = [t \in Transports |-> 0]
  /\ listed = [t \in Transports |-> NotListed]
  /\ inv = [i \in 1..MaxInv |-> Idle]
  /\ NoFormatterCall /\ NoHeapCall /\ NoUpdateTask /\ NoSaveToken
  /\ NoHttpRequest

NextHttp == HttpRequest \/ WindowExpires \/ SseCloses

SpecHttp == InitHttp /\ [][NextHttp]_vars

\* The same server, which does not stop serving: as long as a request, the
\* end of a window or the close of a stream is due, one of them happens.
SpecHttpLive == InitHttp /\ [][NextHttp]_vars /\ WF_vars(NextHttp)

\* ------------------------------------------- GoogleAuthManager.saveToken

\* The saveToken calls of one GoogleAuthManager: the one of the 'tokens'
\* event handler, and the one of authenticate or refreshToken, whose getToken
\* or refreshAccessToken made the client emit 'tokens'.
Savers == {"handler", "caller"}

\* JSON.stringify(tokens, null, 2) of each call: the handler saves the
\* credentials merged with the new tokens, the caller the new tokens.
TokenJson(p) == IF p = "handler" THEN "merged" ELSE "fresh"

\* A file: what was written to it so far (nothing, or one whole JSON text,
\* which writeFile writes in one piece) and its mode.
File(content, mode) == [content |-> content, mode |-> mode]

NotSaving == [pc |-> "idle", fd |-> 0, error |-> "none"]

\* saveToken is called: it computes dir and calls fs.mkdir.
SaveTokenStarts(p) ==
  /\ saves[p].pc = "idle"
  /\ saves' = [saves EXCEPT ![p].pc = "mkdir"]
  /\ UNCHANGED <<serverVars, formatVars, heapVars, httpVars, clientVars, dir, files>>

\* fs.mkdir(dir, { recursive: true }) settles; saveToken builds the JSON text
\* and calls fs.writeFile(tmp, data, { mode: 0o600 }).
MkdirReturns(p) ==
  /\ saves[p].pc = "mkdir"
  /\ saves' = [saves EXCEPT ![p].pc = "open"]
  /\ UNCHANGED <<serverVars, formatVars, heapVars, httpVars, clientVars, dir, files>>

\* writeFile opens tmp for writing: a missing file is created with mode 0600,
\* an existing one is emptied and keeps its mode.
WriteFileOpens(p) ==
  /\ saves[p].pc = "open"
  /\ IF dir.tmp = 0
       THEN /\ files' = Append(files, File(<<>>, "0600"))
            /\ dir' = [dir EXCEPT !.tmp = Len(files) + 1]
            /\ saves' = [saves EXCEPT ![p].pc = "write", ![p].fd = Len(files) + 1]
       ELSE /\ files' = [files EXCEPT ![dir.tmp].content = <<>>]
            /\ dir' = dir
            /\ saves' = [saves EXCEPT ![p].pc = "write", ![p].fd = dir.tmp]
  /\ UNCHANGED <<serverVars, formatVars, heapVars, httpVars, clientVars>>

\* writeFile writes the text to the file it opened, whatever path names that
\* file by now, and closes it; saveToken calls fs.rename(tmp, tokenPath).
WriteFileReturns(p) ==
  /\ saves[p].pc = "write"
  /\ files' = [files EXCEPT ![saves[p].fd].content = <<TokenJson(p)>>]
  /\ saves' = [saves EXCEPT ![p].pc = "rename"]
  /\ UNCHANGED <<serverVars, formatVars, heapVars, httpVars, clientVars, dir>>

\* fs.rename(tmp, tokenPath) settles: tokenPath names the file tmp named and
\* tmp names none; with no tmp it rejects with ENOENT, which the 'tokens'
\* handler logs and authenticate and refreshToken pass on to their caller.
RenameReturns(p) ==
  /\ saves[p].pc = "rename"
  /\ IF dir.tmp = 0
       THEN /\ saves' = [saves EXCEPT ![p].pc = "failed", ![p].error = "ENOENT"]
            /\ dir' = dir
       ELSE /\ saves' = [saves EXCEPT ![p].pc = "done"]
            /\ dir' = [tmp |-> 0, token |-> dir.tmp]
  /\ UNCHANGED <<serverVars, formatVars, heapVars, httpVars, clientVars, files>>

\* A token directory: empty, or with the token of an earlier save, and in
\* either case maybe with the tmp file that a save left behind when the
\* process was stopped.
TokenDirs ==
  {[dir |-> [tmp |-> 0, token |-> 0], files |-> <<>>],
   [dir |-> [tmp |-> 1, token |-> 0], files |-> <<File(<<>>, "0600")>>],
   [dir |-> [tmp |-> 0, token |-> 1], files |-> <<File(<<"old">>, "0600")>>],
   [dir |-> [tmp |-> 2, token |-> 1],
    files |-> <<File(<<"old">>, "0600"), File(<<>>, "0600")>>]}

\* A GoogleAuthManager in a script (setup-auth) or a server, before a save.
InitSave ==
  /\ NoServer /\ NoFormatterCall /\ NoHeapCall /\ NoHttpRequest /\ NoUpdateTask
  /\ \E d \in TokenDirs : dir = d.dir /\ files = d.files
  /\ saves = [p \in Savers |-> NotSaving]

NextSave ==
  \/ \E p \in Savers : SaveTokenStarts(p)
  \/ \E p \in Savers : MkdirReturns(p)
  \/ \E p \in Savers : WriteFileOpens(p)
  \/ \E p \in Savers : WriteFileReturns(p)
  \/ \E p \in Savers : RenameReturns(p)

SpecSave == InitSave /\ [][NextSave]_vars

\* ------------------------------------------------------------ properties

Started(i) == inv[i].pc # "idle"

Done(i) == inv[i].pc = "done"

Failed(i, code) == Done(i) /\ ~inv[i].result.ok /\ inv[i].result.code = code

\* message ends with tail
EndsWith(message, tail) ==
  /\ Len(message) >= Len(tail)
  /\ SubSeq(message, Len(message) - Len(tail) + 1, Len(message)) = tail

\* C1: on the HTTP server with READ_ONLY true, a call of a mutating tool has
\* already failed with the policy denial (InvalidRequest, naming the tool) when
\* its handler first yields, and it has called neither initializeClient nor
\* getAuthClient nor the tasks API, whatever the token file and the handle cell hold.
C1_PolicyDenial ==
  \A i \in 1..MaxInv :
    (Started(i) /\ inv[i].transport = "http" /\ READ_ONLY /\ inv[i].name \in MUTATING_TOOLS)
      => /\ Failed(i, "InvalidRequest")
         /\ inv[i].result.message = ReadOnlyMessage(inv[i].name)
         /\ inv[i].initCalls = 0 /\ inv[i].authCalls = 0 /\ inv[i].apiCalls = 0
         /\ inv[i].client = 0

\* A mutating call was denied while a token exists and a handle is cached.
C1_Witness ==
  \E i \in 1..MaxInv :
    /\ Done(i) /\ inv[i].transport = "http" /\ READ_ONLY
    /\ inv[i].name = "delete_task"
    /\ tokenFile = "present" /\ tasksClient["http"] # 0

\* The collaborators gave invocations i and j the same answers wherever both asked.
SameAnswers(i, j) ==
  /\ inv[i].authAnswer = "none" \/ inv[j].authAnswer = "none"
       \/ inv[i].authAnswer = inv[j].authAnswer
  /\ inv[i].apiAnswer = <<>> \/ inv[j].apiAnswer = <<>>
       \/ inv[i].apiAnswer = inv[j].apiAnswer

BothListed == listed["stdio"] # NotListed /\ listed["http"] # NotListed

C3_UnknownToolFails ==
  \A i \in 1..MaxInv :
    (Done(i) /\ inv[i].name \notin ToolNames) => Failed(i, "MethodNotFound")

\* C4 as claimed: a call whose name is in no catalog never calls getAuthClient
\* (so neither loads the token nor refreshes the credentials).
C4_UnknownToolNoProvider ==
  \A i \in 1..MaxInv :
    (Started(i) /\ inv[i].name \notin ToolNames) => inv[i].authCalls = 0

\* C5 as claimed: however many invocations start before the first handle is
\* built, a server builds one GoogleTasksClient and all of them use that one.
C5_OneConstruction ==
  \A t \in Transports :
    /\ constructed[t] <= 1
    /\ \A i, j \in 1..MaxInv :
         (inv[i].transport = t /\ inv[j].transport = t
            /\ inv[i].client # 0 /\ inv[j].client # 0)
           => inv[i].client = inv[j].client

MissingRequired(i) ==
  /\ inv[i].name \in ToolNames
  /\ ~(Descriptor(inv[i].name).required \subseteq inv[i].args)

\* C6 as claimed: a call of a known tool that leaves out a field of the tool's
\* inputSchema.required never reaches the tasks API, and, once the policy gate
\* and the client handle are behind it, fails with InvalidParams.
C6_MissingFieldRejected ==
  \A i \in 1..MaxInv :
    (Started(i) /\ MissingRequired(i))
      => /\ inv[i].apiCalls = 0
         /\ (Done(i) /\ inv[i].client # 0) => Failed(i, "InvalidParams")

Names(tools) == {tools[k].name : k \in 1..Len(tools)}

\* tools lists catalog descriptors in catalog order, none twice
InCatalogOrder(tools) ==
  \E pos \in [1..Len(tools) -> 1..Len(TOOL_DEFINITIONS)] :
    /\ \A k \in 1..Len(tools) : tools[k] = TOOL_DEFINITIONS[pos[k]]
    /\ \A k \in 1..Len(tools) - 1 : pos[k] < pos[k + 1]

\* C7: what the HTTP server lists under READ_ONLY is exactly the descriptors
\* whose names are in READ_ONLY_TOOLS, in catalog order, fewer than the whole
\* catalog; with READ_ONLY false it lists the whole catalog in order.
C7_Catalog ==
  listed["http"] # NotListed =>
    IF READ_ONLY
      THEN /\ InCatalogOrder(listed["http"])
           /\ Names(listed["http"]) = ToolNames \cap READ_ONLY_TOOLS
           /\ Names(listed["http"]) \cap MUTATING_TOOLS = {}
           /\ Len(listed["http"]) < Len(TOOL_DEFINITIONS)
      ELSE listed["http"] = TOOL_DEFINITIONS

\* The HTTP server answered ListTools under the read-only policy.
C7_Witness == READ_ONLY /\ listed["http"] # NotListed /\ Len(listed["http"]) = 3

\* C8: on either server and under either policy value, a get_auth_url call has
\* returned the authorization URL text when its handler first yields, without
\* calling initializeClient or getAuthClient and without a client handle.
C8_AuthUrl ==
  \A i \in 1..MaxInv :
    (Started(i) /\ inv[i].name = "get_auth_url")
      => /\ Done(i) /\ inv[i].result.ok
         /\ EndsWith(inv[i].result.message, <<"authUrl">>)
         /\ inv[i].initCalls = 0 /\ inv[i].authCalls = 0 /\ inv[i].client = 0
         /\ inv[i].apiCalls = 0

\* get_auth_url answered by the read-only HTTP server with no token and no handle.
C8_Witness ==
  \E i \in 1..MaxInv :
    /\ Done(i) /\ inv[i].name = "get_auth_url" /\ inv[i].transport = "http"
    /\ READ_ONLY /\ tokenFile = "absent" /\ tasksClient["http"] = 0

\* C9: when the tasks API call of an invocation is rejected, the caller gets
\* InternalError with a message that ends with the rejection's message; an
\* McpError thrown by the handler (the policy denial, the unknown tool)
\* reaches the caller with its code and message as thrown.
C9_ErrorWrapping ==
  \A i \in 1..MaxInv :
    Done(i) =>
      /\ inv[i].apiAnswer \in ApiErrors
           => /\ Failed(i, "InternalError")
              /\ EndsWith(inv[i].result.message, inv[i].apiAnswer)
              /\ inv[i].thrown = PlainError(inv[i].apiAnswer)
      /\ inv[i].thrown.isMcp
           => /\ inv[i].thrown.code \in {"InvalidRequest", "MethodNotFound"}
              /\ inv[i].result = [ok |-> FALSE, code |-> inv[i].thrown.code,
                                  message |-> inv[i].thrown.message]
      /\ (~inv[i].result.ok /\ inv[i].result.code = "MethodNotFound")
           => inv[i].result.message = UnknownToolMessage(inv[i].name)
      /\ (~inv[i].result.ok /\ inv[i].result.code = "InvalidRequest")
           => inv[i].result.message = ReadOnlyMessage(inv[i].name)

\* One invocation ended on a rejected API call, another on a thrown McpError.
C9_Witness ==
  \E i, j \in 1..MaxInv :
    /\ Done(i) /\ inv[i].apiAnswer \in ApiErrors
    /\ Done(j) /\ inv[j].thrown.isMcp

AuthFailed(i) == inv[i].authAnswer \in {"noFile", "rejected"}

Validated(i) == inv[i].name \in ToolNames /\ ~MissingRequired(i)

PolicyDenied(i) == inv[i].thrown = McpError("InvalidRequest", ReadOnlyMessage(inv[i].name))

\* C11 as claimed: an invocation enters auth resolution or execution only
\* after it was validated and not denied by the policy; it calls the tasks
\* API only with a client handle in hand (AuthResolved, never after
\* AuthFailed) and at most once; and when it is done it is in exactly one of
\* Succeeded, PolicyDenied and Failed.
C11_InvocationOrder ==
  \A i \in 1..MaxInv :
    Started(i) =>
      /\ (inv[i].authCalls > 0 \/ inv[i].client # 0 \/ inv[i].apiCalls > 0)
           => (Validated(i) /\ ~PolicyDenied(i))
      /\ inv[i].apiCalls > 0 => (inv[i].client # 0 /\ ~AuthFailed(i))
      /\ inv[i].apiCalls <= 1
      /\ inv[i].authCalls <= 1
      /\ Done(i) => Cardinality({k \in {"Succeeded", "PolicyDenied", "Failed"} :
                      \/ k = "Succeeded" /\ inv[i].result.ok
                      \/ k = "PolicyDenied" /\ ~inv[i].result.ok /\ PolicyDenied(i)
                      \/ k = "Failed" /\ ~inv[i].result.ok /\ ~PolicyDenied(i)}) = 1

\* C12 as claimed: once a server has constructed its first GoogleTasksClient,
\* no step constructs another or replaces the cached one, and an invocation
\* that arrives from then on does not call getAuthClient and uses no handle
\* but the cached one.
C12_HandleReused ==
  [][\A t \in Transports :
       constructed[t] >= 1 =>
         /\ constructed'[t] = constructed[t]
         /\ tasksClient'[t] = tasksClient[t]
         /\ \A i \in 1..MaxInv :
              (inv[i].pc = "idle" /\ inv'[i].pc # "idle" /\ inv'[i].transport = t)
                => (inv'[i].authCalls = 0 /\ inv'[i].client \in {0, tasksClient[t]})]_vars

\* C13: in every state of the process, every catalog name is in exactly one
\* of READ_ONLY_TOOLS and MUTATING_TOOLS, neither set names a tool outside the
\* catalog, and the two users of the classification agree on every tool that
\* was called: the listing filter keeps it exactly when the gate lets it pass.
C13_Classification ==
  /\ \A n \in ToolNames : (n \in READ_ONLY_TOOLS) # (n \in MUTATING_TOOLS)
  /\ READ_ONLY_TOOLS \cup MUTATING_TOOLS \subseteq ToolNames
  /\ Cardinality(ToolNames) = Len(TOOL_DEFINITIONS)
  /\ \A i \in 1..MaxInv :
       (Started(i) /\ inv[i].name \in ToolNames)
         => (IsReadOnlyTool(Descriptor(inv[i].name)) # PolicyDenies(TRUE, inv[i].name))

\* The read-only HTTP server has handled a call of each class: it denied a
\* mutating tool and carried out a read-only one.
C13_Witness ==
  \E i, j \in 1..MaxInv :
    /\ READ_ONLY /\ inv[i].transport = "http" /\ inv[j].transport = "http"
    /\ Done(i) /\ inv[i].name \in MUTATING_TOOLS /\ PolicyDenied(i)
    /\ Done(j) /\ inv[j].name \in READ_ONLY_TOOLS /\ inv[j].result.ok

\* ---- formatForTerminal

\* The Grapheme_Cluster_Break class of each codepoint of the string.
ClassesOf(units) ==
  [k \in 1..Len(CodePoints(units)) |->
     GraphemeClusterBreak(CodePointValue(CodePoints(units)[k]))]

\* UAX #29 read as a rule about places: a cluster starts at codepoint k when
\* k is the first, or k is neither Extend nor ZWJ (GB9) and is not an
\* Extended_Pictographic joined by a ZWJ to an Extended_Pictographic Extend*
\* before it (GB11).
BoundaryBefore(class, k) ==
  \/ k = 1
  \/ /\ class[k] \notin {"Extend", "ZWJ"}
     /\ ~(/\ class[k] = "ExtPict"
          /\ class[k - 1] = "ZWJ"
          /\ \E j \in 1..(k - 2) :
               class[j] = "ExtPict" /\ \A m \in (j + 1)..(k - 2) : class[m] = "Extend")

ClusterStarts(units) ==
  {k \in 1..Len(ClassesOf(units)) : BoundaryBefore(ClassesOf(units), k)}

\* The grapheme clusters of the string in order, each by its code units.
ClustersOf(units) ==
  LET starts == ClusterStarts(units)
      nth(n) == CHOOSE k \in starts : Cardinality({j \in starts : j <= k}) = n
      last(n) == IF n = Cardinality(starts) THEN Len(CodePoints(units)) ELSE nth(n + 1) - 1
  IN [n \in 1..Cardinality(starts) |-> Join(SubSeq(CodePoints(units), nth(n), last(n)))]

\* The string has a codepoint in one of the five RTL blocks.
HasRTLCodePoint(units) ==
  \E k \in 1..Len(CodePoints(units)) : InRTLRanges(CodePointValue(CodePoints(units)[k]))

\* part occurs in whole as a contiguous run
Contains(whole, part) ==
  \E k \in 1..(Len(whole) - Len(part) + 1) : SubSeq(whole, k, k + Len(part) - 1) = part

\* formatForTerminal was called with a string that has an RTL codepoint.
FormattedRTL ==
  shown # NotCalled /\ textIn.type = "string" /\ HasRTLCodePoint(textIn.units)

C16_NoRtlUnchanged ==
  (shown # NotCalled /\ textIn.type = "string" /\ ~HasRTLCodePoint(textIn.units))
    => shown = textIn

\* A digits-only string was formatted.
C16_Witness == textIn = StringOf(<<49, 49, 49>>) /\ shown = textIn

\* Every grapheme cluster of the string is a single codepoint.
SingleCodePointClusters(units) == Len(ClustersOf(units)) = Len(CodePoints(units))

NoMarkOrJoiner(units) ==
  \A k \in 1..Len(ClassesOf(units)) : ClassesOf(units)[k] \notin {"Extend", "ZWJ"}

C18_EmptyForFalsy ==
  (shown # NotCalled /\ (textIn \in {Null, Undefined} \/ textIn = Str(<<>>)))
    => shown = Str(<<>>)

\* formatForTerminal(null) has returned.
C18_Witness == textIn = Null /\ shown = Str(<<>>)

\* formatForTerminal was called with an RTL string where Intl.Segmenter is missing.
FormattedByFallback == FormattedRTL /\ ~segmenter

\* C19 as claimed: without Intl.Segmenter the output is the input reversed
\* codepoint by codepoint, a surrogate pair staying intact.
C19_FallbackByCodePoint ==
  FormattedByFallback => shown = Str(Join(Reverse(CodePoints(textIn.units))))

\* C19 amended: without Intl.Segmenter the call still returns a string, and
\* it is the input reversed UTF-16 code unit by code unit: a codepoint of the
\* basic plane stays intact, the two code units of a surrogate pair come out
\* in swapped order.
C19_FallbackByCodeUnit ==
  FormattedByFallback =>
    /\ shown.type = "string"
    /\ Len(shown.units) = Len(textIn.units)
    /\ \A k \in 1..Len(textIn.units) : shown.units[k] = textIn.units[Len(textIn.units) + 1 - k]
    /\ \A k \in 1..(Len(textIn.units) - 1) :
         (IsHighSurrogate(textIn.units[k]) /\ IsLowSurrogate(textIn.units[k + 1]))
           => /\ IsLowSurrogate(shown.units[Len(textIn.units) - k])
              /\ IsHighSurrogate(shown.units[Len(textIn.units) + 1 - k])

\* A Hebrew letter followed by an emoji went through the fallback: the emoji's
\* low surrogate comes first, then its high surrogate, then the letter.
C19_Witness ==
  /\ ~segmenter /\ textIn = StringOf(<<1513, 128075>>)
  /\ shown = Str(<<56395, 55357, 1513>>)

\* ---- formatJsonForTerminal

\* One step of a path into a value: into the entry of an object by its key
\* (index 0), or into an item of an array by its index (from 1).
Step(key, index) == [key |-> key, index |-> index]

\* The paths from a value to the values in it that hold nothing: primitives
\* and empty containers.
RECURSIVE PathsOf(_)
PathsOf(v) ==
  IF v.type = "array" /\ v.items # <<>>
    THEN UNION {{<<Step("", k)>> \o p : p \in PathsOf(v.items[k])} : k \in 1..Len(v.items)}
  ELSE IF v.type = "object" /\ v.entries # <<>>
    THEN UNION {{<<Step(v.entries[k].key, 0)>> \o p : p \in PathsOf(v.entries[k].value)} :
                  k \in 1..Len(v.entries)}
  ELSE {<<>>}

\* The value a path leads to.
RECURSIVE At(_, _)
At(v, p) ==
  IF p = <<>> THEN v
  ELSE IF Head(p).index > 0 THEN At(v.items[Head(p).index], Tail(p))
  ELSE At((CHOOSE e \in {v.entries[k] : k \in 1..Len(v.entries)} : e.key = Head(p).key).value,
          Tail(p))

\* The path ends in the entry of an object whose key rtlFields names.
UnderListedKey(p) == p # <<>> /\ p[Len(p)].index = 0 /\ Includes(rtlFields, p[Len(p)].key)

\* C20: the output has the paths of the input, and at every path the value of
\* the input, but for a string bound directly to a key that rtlFields names,
\* which is replaced by formatForTerminal of it: values under other keys,
\* values that are no strings and strings that are items of an array (also of
\* an array under a listed key) are the same in the output, in any script.
C20_OnlyListedStrings ==
  json # NotCalled =>
    /\ PathsOf(json) = PathsOf(data)
    /\ \A p \in PathsOf(data) :
         At(json, p) = IF At(data, p).type = "string" /\ UnderListedKey(p)
                         THEN formatForTerminal(At(data, p))
                         ELSE At(data, p)

\* A task whose title and id are the same Hebrew string with an emoji was
\* formatted with the default rtlFields: the title is reversed, the id is not.
C20_Witness ==
  /\ segmenter /\ rtlFields = <<"title", "notes">>
  /\ data = Obj(<<Entry("title", StringOf(<<1513, 1501, 128075>>)),
                  Entry("id", StringOf(<<1513, 1501, 128075>>))>>)
  /\ json = Obj(<<Entry("title", StringOf(<<128075, 1501, 1513>>)),
                  Entry("id", StringOf(<<1513, 1501, 128075>>))>>)

\* b has the shape of a: an array of as many items, each of the shape of the
\* item at its place; an object of the same keys in the same order, each value
\* of the shape of the value under that key; otherwise a value of a's kind.
RECURSIVE SameShape(_, _)
SameShape(a, b) ==
  IF a.type = "array"
    THEN /\ b.type = "array"
         /\ Len(b.items) = Len(a.items)
         /\ \A k \in 1..Len(a.items) : SameShape(a.items[k], b.items[k])
  ELSE IF a.type = "object"
    THEN /\ b.type = "object"
         /\ Len(b.entries) = Len(a.entries)
         /\ \A k \in 1..Len(a.entries) :
              /\ b.entries[k].key = a.entries[k].key
              /\ SameShape(a.entries[k].value, b.entries[k].value)
  ELSE b.type = a.type

\* C22: formatJsonForTerminal preserves shape: the output nests as the input
\* does, every object has exactly the keys of the input object, every array
\* has the length of the input array with its items in the input's order, and
\* null and undefined are returned as null and undefined, not as the empty
\* string.
C22_ShapePreserved ==
  json # NotCalled =>
    /\ SameShape(data, json)
    /\ data \in {Null, Undefined} => json = data
    /\ data.type = "array" =>
         \A k \in 1..Len(data.items) :
           data.items[k].type \notin {"array", "object"} => json.items[k] = data.items[k]

\* An array of two tasks was formatted: the result is an array of two objects
\* with the keys title and id, the first task first, the null title still null.
C22_Witness ==
  /\ data = Arr(<<Obj(<<Entry("title", StringOf(<<1513, 1501, 128075>>)),
                        Entry("id", Str(<<72, 105>>))>>),
                  Obj(<<Entry("title", Null), Entry("id", StringOf(<<1513, 1501, 128075>>))>>)>>)
  /\ json # NotCalled
  /\ Len(json.items) = 2
  /\ json.items[1].entries[2] = Entry("id", Str(<<72, 105>>))
  /\ json.items[2].entries = data.items[2].entries

\* C25: the HTTP server is read-only unless the READ_ONLY setting read at
\* process start is exactly the string 'false', and the policy is the same
\* for every invocation of the process: every call of a mutating tool is
\* denied, and the listing is the read-only catalog, exactly when the
\* setting is anything else (unset, 'true', 'FALSE').
C25_ReadOnlyByDefault ==
  /\ READ_ONLY = (processEnv # EnvFalse)
  /\ listed["http"] # NotListed =>
       (Names(listed["http"]) = READ_ONLY_TOOLS) = (processEnv # EnvFalse)
  /\ \A i \in 1..MaxInv :
       (Started(i) /\ inv[i].name \in MUTATING_TOOLS) =>
         PolicyDenied(i) = (processEnv # EnvFalse)

\* The process was started with READ_ONLY=FALSE: its first and its last
\* invocation, both of a mutating tool, were denied by the policy.
C25_Witness ==
  /\ processEnv = EnvFALSE
  /\ inv[1].name = "create_task" /\ PolicyDenied(1)
  /\ inv[MaxInv].name = "delete_task" /\ PolicyDenied(MaxInv)

\* The step in which getAuthClient throws for invocation i.
AuthFails(i) == ~AuthFailed(i) /\ AuthFailed(i)'

\* The step in which invocation i arrives and its handler, neither denied by
\* the policy nor asked for get_auth_url, needs a client handle.
ArrivesNeedingHandle(i) ==
  /\ inv[i].pc = "idle" /\ inv'[i].pc # "idle"
  /\ ~IsAuthUrlCall(inv'[i].name)
  /\ ~PolicyDenied(i)'

\* C28: a failed handle construction is not cached.  The step in which
\* getAuthClient throws leaves the handle cell as it was (empty, if no other
\* invocation filled it); an invocation that needs a handle and finds the
\* cell empty, also after such a failure, calls getAuthClient again; and when
\* the credentials are accepted that time it gets a handle, which is cached.
C28_FailureNotCached ==
  [][\A i \in 1..MaxInv :
       /\ AuthFails(i) => tasksClient' = tasksClient
       /\ (ArrivesNeedingHandle(i) /\ tasksClient[inv'[i].transport] = 0)
            => (inv'[i].pc = "loadToken" /\ inv'[i].authCalls = 1)
       /\ (inv[i].pc = "getAccessToken" /\ inv'[i].authAnswer = "accepted")
            => /\ tasksClient'[inv[i].transport] # 0
               /\ inv'[i].client = tasksClient'[inv[i].transport]
               /\ inv'[i].pc = "api" \/ Failed(i, "MethodNotFound")']_vars

\* The first invocation failed for lack of a token file; the token was saved
\* since, and the second invocation called getAuthClient, was given the one
\* handle built so far and succeeded.
C28_Witness ==
  /\ Done(1) /\ inv[1].authAnswer = "noFile" /\ inv[1].client = 0
  /\ tokenFile = "present"
  /\ Done(2) /\ inv[2].authCalls = 1 /\ inv[2].authAnswer = "accepted"
  /\ inv[2].result.ok /\ inv[2].client = 1 /\ tasksClient[inv[2].transport] = 1

\* Invocation i arrived at the HTTP server and its handler went past
\* initializeClient without a failure of getAuthClient: it was stopped
\* earlier, or it was given a client handle.
DecidedWithCredential(i) ==
  /\ inv[i].transport = "http"
  /\ inv[i].pc \in {"api", "done"}
  /\ ~AuthFailed(i)

\* C29: on the HTTP server the advertised catalog and the dispatch gate
\* agree, under either policy value: given a valid credential, a name is in
\* the ListTools response exactly when a call of that name is rejected
\* neither by the policy gate nor as an unknown tool.
C29_CatalogMatchesGate ==
  listed["http"] # NotListed =>
    \A i \in 1..MaxInv :
      DecidedWithCredential(i) =>
        (inv[i].name \in Names(listed["http"]))
          = (~PolicyDenied(i) /\ ~Failed(i, "MethodNotFound"))

\* Under the read-only policy the HTTP server listed its catalog and, with
\* accepted credentials, rejected a name that is in no catalog as unknown.
C29_Witness ==
  /\ READ_ONLY /\ listed["http"] # NotListed
  /\ inv[2].transport = "http" /\ inv[2].name = UnknownName
  /\ inv[2].authAnswer = "accepted" /\ Failed(2, "MethodNotFound")

\* The keys of an object.
KeysOf(object) == {object.entries[k].key : k \in 1..Len(object.entries)}

\* The value an object holds under a key it has.
ValueOf(object, key) ==
  (CHOOSE e \in {object.entries[k] : k \in 1..Len(object.entries)} : e.key = key).value

\* The fields the caller of updateTask supplied.
Supplied == {f \in {"title", "notes", "due", "status"} : updateArgs.updates[f] # Undefined}

RECURSIVE Containers(_, _)
Containers(h, v) ==
  IF v.type # "ref" THEN {}
  ELSE IF h[v.addr].type = "array"
    THEN {v.addr} \cup UNION {Containers(h, h[v.addr].items[k]) : k \in 1..Len(h[v.addr].items)}
  ELSE {v.addr}
         \cup UNION {Containers(h, h[v.addr].entries[k].value) : k \in 1..Len(h[v.addr].entries)}

\* C21: formatJsonForTerminal does not mutate its input.  After the call
\* every container that existed before it holds what it held (so every
\* array, object and scalar of the input tree is as before), and every array
\* or object in the result is a container created by the call, none of them a
\* container of the input; the result stands for the value the function
\* computes from the input.
C21_InputNotMutated ==
  [][(jsonRef = NotCalled /\ jsonRef' # NotCalled) =>
       /\ dataRef' = dataRef
       /\ Len(heap') >= Len(heap)
       /\ \A a \in 1..Len(heap) : heap'[a] = heap[a]
       /\ Load(heap', dataRef') = Load(heap, dataRef)
       /\ Containers(heap', jsonRef') \cap (1..Len(heap)) = {}
       /\ Load(heap', jsonRef') = formatJsonForTerminal(Load(heap, dataRef), rtlFields)]_vars

\* An array of two tasks without RTL text was formatted: the input's three
\* containers are as they were and the result is made of three others with
\* the same content.
C21_Witness ==
  /\ dataRef = Ref(3)
  /\ heap[1] = Obj(<<Entry("title", Null), Entry("id", Str(<<72, 105>>))>>)
  /\ heap[2] = heap[1]
  /\ heap[3] = Arr(<<Ref(1), Ref(2)>>)
  /\ jsonRef = Ref(6)
  /\ heap[4] = heap[1] /\ heap[5] = heap[1]
  /\ heap[6] = Arr(<<Ref(4), Ref(5)>>)

\* The Authorization header carries MCP_TOKEN: it is the token itself, or the
\* word Bearer (in any case), white space, and the token.
CarriesToken(header) ==
  /\ header # Undefined
  /\ \/ header.pieces = <<MCP_TOKEN>>
     \/ /\ Len(header.pieces) >= 3
        /\ IsBearerWord(header.pieces[1])
        /\ \A k \in 2..(Len(header.pieces) - 1) : header.pieces[k] = " "
        /\ header.pieces[Len(header.pieces)] = MCP_TOKEN

\* A middleware in front of authMiddleware answers the request, which is the
\* count+1st of its window: the CORS check, the preflight answer, the rate
\* limiter or the body parser.
RefusedEarlier(req, count) ==
  \/ req.origin = "foreign"
  \/ req.method = "OPTIONS"
  \/ count >= RATE_LIMIT_MAX
  \/ req.body = "malformed"

\* C23 as claimed: a request under /mcp reaches the SSE or the message
\* handler only if its Authorization header carries MCP_TOKEN, and every
\* other request under /mcp is answered 401.
C23_Unauthorized401 ==
  /\ lastRequest.handler \in {"sse", "message"}
       => CarriesToken(lastRequest.request.authorization)
  /\ (UnderMcp(lastRequest.request.path) /\ ~CarriesToken(lastRequest.request.authorization))
       => (lastRequest.status = 401 /\ lastRequest.handler = "none")

\* C23 amended: a request under /mcp reaches the SSE or the message handler
\* only if its Authorization header carries MCP_TOKEN.  Every other request
\* under /mcp reaches no handler, opens no connection and causes no
\* dispatch; it is answered 401 by authMiddleware unless a middleware in
\* front of it answered first (500 for an Origin that is not allowed or a
\* body that does not parse, 204 for a preflight, 429 over the rate limit).
\* GET /health is served without a token.
C23_TokenGate ==
  [][(lastRequest' # lastRequest \/ hits' > hits) =>
       /\ lastRequest'.handler \in {"sse", "message"}
            => CarriesToken(lastRequest'.request.authorization)
       /\ (UnderMcp(lastRequest'.request.path)
             /\ ~CarriesToken(lastRequest'.request.authorization))
            => /\ lastRequest'.handler = "none"
               /\ IF RefusedEarlier(lastRequest'.request, hits)
                    THEN lastRequest'.status \in {500, 204, 429}
                    ELSE lastRequest'.status = 401
               /\ sse' = sse /\ accepted' = accepted /\ sent' = sent
               /\ inv' = inv /\ tasksClient' = tasksClient
       /\ (lastRequest'.request.path = "/health" /\ lastRequest'.request.method = "GET"
             /\ lastRequest'.request.origin # "foreign")
            => (lastRequest'.status = 200 /\ lastRequest'.handler = "health")]_vars

\* With one event stream open, a GET /mcp/sse with another token was answered
\* 401 and opened nothing.
C23_Witness ==
  /\ sse = {1}
  /\ lastRequest =
       [request |-> Req("GET", "/mcp/sse", "none", Header(<<"Bearer", " ", "wrong-token">>),
                        "none", 1),
        status |-> 401, handler |-> "none"]

\* C24 as claimed: every authenticated message posted to /mcp/message (it was
\* answered 200) is dispatched and its result is eventually sent on the event
\* stream it belongs to, unless that stream is closed first; this with
\* several streams open at once.
C24_MessageAnswered ==
  \A c \in 1..MaxConn :
    (c \in sse /\ c \in accepted) ~> (c \in sent \/ c \notin sse)

\* The file tokenPath names holds one whole JSON text.
TokenIsComplete == Len(files[dir.token].content) = 1

\* C27 as claimed: saving a token is atomic.  A save renames tmp onto
\* tokenPath only after it wrote its whole JSON to tmp, created with mode
\* 0600, so that tokenPath never holds a partially written token.
C27_AtomicSave ==
  dir.token # 0 => (TokenIsComplete /\ files[dir.token].mode = "0600")

Finished(p) == saves[p].pc \in {"done", "failed"}

\* C30 as claimed: when the save of the 'tokens' handler and the save of
\* authenticate or refreshToken overlap, both complete without error and
\* tokenPath ends up holding the complete token of one of them.
C30_OverlappingSaves ==
  (\A p \in Savers : Finished(p)) =>
    /\ \A p \in Savers : saves[p].pc = "done" /\ saves[p].error = "none"
    /\ dir.token # 0
    /\ \E p \in Savers : files[dir.token].content = <<TokenJson(p)>>

====
